---- MODULE Spec2Model ----
(***************************************************************************)
(* Dependency-driven task runtime core of NANOS++.                         *)
(*                                                                         *)
(* The model follows src/src/core/dependableobject.hpp: every inline       *)
(* method of DependableObject that changes state is an operator named as   *)
(* in the source, and the actions are the runtime steps that call them:    *)
(* the submission pipeline of the dependency domain (edge creation, the    *)
(* submitted mark, the release check), the scheduler's dispatch, and the   *)
(* completion of a task, which decrements each of its successors.          *)
(***************************************************************************)
EXTENDS Integers, FiniteSets, Sequences, TLC

\* Number of DependableObjects of the domain.
NumTasks == 3

\* How many times submitted() may be called on one object.
MaxSubmits == 2

\* How many tasks are submitted in the runs that follow objects up to their
\* destruction.
LifeTasks == 2

\* How many connect_nodes calls are made on the dumped task graph.
MaxCalls == 2

\* How many objects are submitted in the runs with a taskwait: the tasks
\* 1..WaitTasks-1 and then the taskwait object, WaitTasks.
WaitTasks == 3

\* How many tasks are submitted in the runs in which the dependency domain
\* derives the edges from the accesses, and how many accesses a task has.
DomTasks == 4
MaxAccesses == 1

\* How many references external holders (waiters, the dump tool) hold at a
\* time, over all objects.
MaxRefs == 1

\* How many overlaps the domain resolves for one submitted object (calls of
\* addSuccessor with that object as target, repeated sources included).
MaxConnect == 2

\* How many access descriptors are cloned into the lists of the objects.
MaxTargets == 2

\* How many DeviceOpsPtr objects (addresses) and DeviceOps objects there are.
MaxPtrs == 2
MaxOps == 2

\* How many elements are added to the request queue.
MaxElems == 2

\* Keys 1..MaxKey of the request map, and how many add calls it receives.
MaxKey == 3
MaxAdds == 4

\* How many fetch calls the request map receives.
MaxFetches == 2

\* Finish servants that are constructed, and calls of serve() they receive.
MaxServants == 3
MaxServes == 2

\* Width in bits of unsigned int and of size_t, scaled down; size_t is the
\* wider of the two.
UIntBits == 3
SizeBits == 4

NumObjects == IF DomTasks > NumTasks THEN DomTasks ELSE NumTasks

DObj == 1..NumObjects

VARIABLES
    pc,            \* position of each object in the submission pipeline
    flags,         \* _submitted and _needsSubmission of each object
    numPred,       \* _numPredecessors of each object
    successors,    \* _successors of each object
    predecessors,  \* _predecessors of each object
    run,           \* scheduler side: idle, running, finished
    todo,          \* successors a finished object still has to decrement
    batch,         \* whether the finished object releases in batch mode
    pending,       \* batch mode: successors brought to zero, not yet released
    deliveries,    \* number of dependenciesSatisfied calls per object
    atSucc,        \* calls of SchedulePolicy::atSuccessor per mode and edge
    submitCalls,   \* calls of submitted() that returned normally, per object
    life,          \* objects inside ~DependableObject (destroying) or dead
    references,    \* _references of the objects that have any
    dtodo,         \* predecessors the running destructor has still to visit
    lock,          \* _objectLock of the objects whose lock is held: the
                   \* object whose method holds it
    tgpc,          \* position of the threads inside Node::connect_nodes
    new_edge,      \* the Edge each thread's connect_nodes call has created
    nodeLock,      \* holder of the _entry_lock and _exit_lock that are held
    exit_edges,    \* _exit_edges of the nodes that have any
    entry_edges,   \* _entry_edges of the nodes that have any
    used_edge_types, \* indices of used_edge_types set to 1
    connectCalls,  \* connect_nodes calls made so far
    waitReturned,  \* the taskwait has returned to its caller
    last_writer,   \* region_map: last writer of the regions that have one
    last_readers,  \* region_map: readers of a region since its last writer
    acc,           \* the accesses each task has registered
    plan,          \* sources of the edges still to create for the access
                   \* being registered, per task
    outputObjects, \* _outputObjects of the objects that have any
    readObjects,   \* _readObjects of the objects that have any
    deleted,       \* BaseDependency clones deleted: how many times each
    allocated,     \* BaseDependency clones made so far
    predecessorFinished, \* calls of WorkDescriptor::predecessorFinished,
                   \* per pair <<notified object, finished predecessor>>
    queue,         \* RequestQueue::_queue
    qlock,         \* RequestQueue::_lock: the thread that holds it
    rqpc,          \* position and local elem of the threads inside a
                   \* RequestQueue method
    added,         \* elements in the order they were pushed on _queue
    returned,      \* elements in the order tryFetch took them from _queue
    map,           \* RequestMap::_map
    reported,      \* lines RequestMap::add wrote to std::cerr
    mapAdds,       \* calls of RequestMap::add made so far
    fetched,       \* what the last call of RequestMap::fetch gave its caller
    notFound,      \* lines RequestMap::fetch wrote to std::cerr
    mapFetches,    \* calls of RequestMap::fetch made so far
    value,         \* DeviceOpsPtr::_value of the pointers that have one
    refs,          \* DeviceOps::_refs of the DeviceOps that have any
    ptrs,          \* the DeviceOpsPtr objects that are alive
    finished,      \* the static CommandServant<Finish>::_finished
    servants,      \* the Finish servants that are constructed
    serves,        \* calls of Finish::Servant::serve made so far
    observed,      \* what isFinished() last returned, by the servant it
                   \* was called through
    apiArgs,       \* the last call of nanos_cmalloc_2dim_distributed: its
                   \* arguments and the number of nodes of the network
    apiRet,        \* the nanos_err_t that call returned
    apiDid         \* the steps that call took on the allocator and on sys

\* The variables from life on hold only the entries that differ from the
\* value a field has after construction: At reads an entry, Upd writes one.
EmptyMap == [k \in {} |-> 0]

At(f, k, initial) == IF k \in DOMAIN f THEN f[k] ELSE initial

Upd(f, k, v, initial) ==
    IF v = initial
    THEN [x \in DOMAIN f \ {k} |-> f[x]]
    ELSE [x \in DOMAIN f \cup {k} |-> IF x = k THEN v ELSE f[x]]

\* The life of object d (live, destroying, dead), its _references, the
\* predecessors its destructor has still to visit and the holder of its
\* _objectLock (0: free).
Life(d) == At(life, d, "live")
Refs(d) == At(references, d, 0)
Dtodo(d) == At(dtodo, d, {})
Lock(d) == At(lock, d, 0)

\* region_map: last writer of region r (0: none) and its readers since; the
\* accesses task T has registered and the sources of its planned edges.
LastWriter(r) == At(last_writer, r, 0)
LastReaders(r) == At(last_readers, r, {})
Acc(T) == At(acc, T, {})
Plan(T) == At(plan, T, {})

\* The access descriptors object d owns, as the source keeps them (vectors of
\* pointers to BaseDependency clones), and how often clone x was deleted.
OutputObjects(d) == At(outputObjects, d, <<>>)
ReadObjects(d) == At(readObjects, d, <<>>)
Deleted(x) == At(deleted, x, 0)

\* The elements of a vector.
Range(v) == {v[i] : i \in DOMAIN v}

\* Destruction and reference counting.
lifeVars == <<life, references, dtodo, lock>>

\* State of the parts of the runtime that the task pipeline leaves alone.
tgVars == <<tgpc, new_edge, nodeLock, exit_edges, entry_edges,
            used_edge_types, connectCalls>>

\* State outside the DependableObject class.
waitVars == <<waitReturned>>

domVars == <<last_writer, last_readers, acc, plan>>

\* Access descriptors and notifications of the DependableObjects.
ownVars == <<outputObjects, readObjects, deleted, allocated,
             predecessorFinished>>

\* Request queue and request map of the cluster layer.
rqVars == <<queue, qlock, rqpc, added, returned>>

\* What a call of RequestMap::fetch leaves behind.
mfVars == <<fetched, notFound, mapFetches>>

mapVars == <<map, reported, mapAdds, mfVars>>

\* Registered pointers to DeviceOps.
opsVars == <<value, refs, ptrs>>

\* State the submission pipeline, the taskwait, the domain and the dump of
\* the task graph leave alone.
\* The Finish command of the MPI layer.
finVars == <<finished, servants, serves, observed>>

\* The memory services of the C API.
memVars == <<apiArgs, apiRet, apiDid>>

restVars == <<ownVars, rqVars, mapVars, opsVars, finVars, memVars>>

otherVars == <<waitVars, tgVars, domVars, restVars>>

extVars == <<lifeVars, otherVars>>

vars == <<pc, flags, numPred, successors, predecessors, run, todo, batch,
          pending, deliveries, atSucc, submitCalls, extVars>>

\* State of the DependableObject class and of the pipeline that drives it.
doVars == <<pc, flags, numPred, successors, predecessors, run, todo, batch,
            pending, deliveries, atSucc, submitCalls, lifeVars>>

\* State that the DeviceOps pointers leave alone.
notOps == <<doVars, waitVars, tgVars, domVars, ownVars, rqVars, mapVars,
           finVars, memVars>>

\* State that the request queue leaves alone.
notRQ == <<doVars, waitVars, tgVars, domVars, ownVars, mapVars, opsVars,
          finVars, memVars>>

\* State that the request map leaves alone.
notMap == <<doVars, waitVars, tgVars, domVars, ownVars, rqVars, opsVars,
           finVars, memVars>>

\* State that the Finish command leaves alone.
notFin == <<doVars, waitVars, tgVars, domVars, ownVars, rqVars, mapVars,
           opsVars, memVars>>

\* State that the memory services leave alone.
notMem == <<doVars, waitVars, tgVars, domVars, ownVars, rqVars, mapVars,
           opsVars, finVars>>

\* State that the task-graph dump leaves alone.
notTG == <<doVars, waitVars, domVars, restVars>>

----------------------------------------------------------------------------
(* DependableObject's methods, as the source computes them.                *)

\* return _numPredecessors++;
increasePredecessors_skip(n) == n

increasePredecessors(n) == n + 1

\* int numPred = --_numPredecessors; ... if ( numPred == 0 && !batchRelease )
\* dependenciesSatisfied(); return numPred;
\* The block that would call decreasePredecessorsInLock is commented out in
\* the source, so neither _predecessors nor the flags are read or written.
decreasePredecessors_nobatch(n, batchRelease) ==
    LET np == n - 1
    IN  [numPred |-> np, satisfied |-> (np = 0)]

decreasePredecessors(n, batchRelease) ==
    LET np == n - 1
    IN  [numPred |-> np, satisfied |-> (np = 0 /\ ~batchRelease)]

\* inserted = _predecessors.insert( &depObj ).second;
addPredecessor_drop(preds, depObj) ==
    [set |-> preds, inserted |-> depObj \notin preds]

addPredecessor(preds, depObj) ==
    [set |-> preds \cup {depObj}, inserted |-> depObj \notin preds]

\* return _successors.insert( &depObj ).second;
addSuccessor_always(succs, depObj) ==
    [set |-> succs \cup {depObj}, inserted |-> TRUE]

addSuccessor(succs, depObj) ==
    [set |-> succs \cup {depObj}, inserted |-> depObj \notin succs]

\* return _successors.erase( depObj ) > 0;
deleteSuccessor_keep(succs, depObj) ==
    [set |-> succs, erased |-> depObj \in succs]

deleteSuccessor(succs, depObj) ==
    [set |-> succs \ {depObj}, erased |-> depObj \in succs]

\* _references++;
increaseReferences(n) == n + 1

\* _references = 1;
resetReferences(n) == 1

\* The null pointer.
NULL == 0

\* getWD(): the objects of the model are tasks, each with its own
\* WorkDescriptor, named as the object.
getWD(d) == d

\* decreasePredecessorsInLock( finishedPred, numPred ) on object this, given
\* its _predecessors and the record of predecessorFinished calls: the
\* WorkDescriptor of this is notified, the finished predecessor is erased and
\* at zero the list is cleared. Its one call, in decreasePredecessors, is
\* commented out in the source, so no action applies it.
decreasePredecessorsInLock(preds, notes, this, finishedPred, n) ==
    LET notified == /\ finishedPred # NULL
                    /\ getWD(this) # NULL
                    /\ getWD(finishedPred) # NULL
        erased == IF finishedPred # NULL THEN preds \ {finishedPred} ELSE preds
    IN  [predecessors |-> IF n = 0 THEN {} ELSE erased,
         predecessorFinished |->
             IF notified
             THEN Upd(notes, <<this, finishedPred>>,
                      At(notes, <<this, finishedPred>>, 0) + 1, 0)
             ELSE notes]

\* addWriteTarget( outObj ): _outputObjects.push_back( outObj.clone() ).
addWriteTarget(outputs, clone) == Append(outputs, clone)

\* addReadTarget( readObj ): _readObjects.push_back( readObj.clone() ).
addReadTarget(reads, clone) == Append(reads, clone)

\* deleter<BaseDependency> applied to the elements of a vector: one more
\* delete for each of them.
deleter(del, v) ==
    [x \in DOMAIN del \cup Range(v) |->
        At(del, x, 0) + Cardinality({i \in DOMAIN v : v[i] = x})]

\* _needsSubmission = true;
enableSubmission_reset(f) ==
    [f EXCEPT !.needsSubmission = TRUE, !.submitted = FALSE]

enableSubmission(f) == [f EXCEPT !.needsSubmission = TRUE]

\* _submitted = true; enableSubmission(); memoryFence();
submitted(f) == enableSubmission([f EXCEPT !.submitted = TRUE])

\* _needsSubmission = false; _submitted = false; memoryFence();
disableSubmission_keep(f) == [f EXCEPT !.needsSubmission = FALSE]

disableSubmission(f) == [f EXCEPT !.needsSubmission = FALSE, !.submitted = FALSE]

\* sys.getDefaultSchedulePolicy()->atSuccessor( succ, pred, mode, numPred ):
\* the policy is notified; the model counts the notifications per edge.
atSuccessor(h, succ, pred, mode) ==
    [h EXCEPT ![mode][<<pred, succ>>] = @ + 1]

\* Number of edge resolutions made so far with T as target.
Resolutions(T) ==
    LET calls[i \in 0..NumObjects] ==
            IF i = 0 THEN 0 ELSE calls[i - 1] + atSucc[0][<<i, T>>]
    IN  calls[NumObjects]

\* dependenciesSatisfied(): the object is handed to the scheduler, which
\* counts what it was handed.
dependenciesSatisfied(del, d) == [del EXCEPT ![d] = @ + 1]

----------------------------------------------------------------------------
(* The dependency domain.                                                   *)

\* Regions of memory that tasks access (disjoint byte ranges), and the
\* access modes.
Regions == {"x", "y"}
Modes == {"input", "output"}

-----------------------------------------------------------------------------
(* The dumped task graph (tg_dump_utils.hpp).                               *)

\* Threads of the instrumentation that call connect_nodes, and the nodes.
Threads == {"t1", "t2"}
NoThread == "none"
Nodes == {"A", "B"}

\* EdgeKind and DependencyType of the edges that are created, and their data
\* ranges (data_start, data_end); <<0, 0>> is (NULL, NULL).
EdgeTypes == {<<"Nesting", "Null">>, <<"Dependency", "True">>}
DataRanges == {<<0, 0>>, <<1, 4>>}

NoEdge == [ptr |-> 0]

\* Position of thread t in connect_nodes and its new_edge; holder of lock l;
\* _exit_edges and _entry_edges of node n.
Tgpc(t) == At(tgpc, t, "idle")
NewEdge(t) == At(new_edge, t, NoEdge)
Holder(l) == At(nodeLock, l, NoThread)
ExitEdges(n) == At(exit_edges, n, <<>>)
EntryEdges(n) == At(entry_edges, n, <<>>)

\* Lock _entry_lock; Lock _exit_lock;
exit_lock(n) == <<n, "exit">>

entry_lock_asExit(n) == <<n, "exit">>

entry_lock(n) == <<n, "entry">>

\* operator==(Edge const&, Edge const&): the pointer is not compared.
EdgeEq(lhs, rhs) ==
    /\ lhs.kind = rhs.kind
    /\ lhs.dep_type = rhs.dep_type
    /\ lhs.source = rhs.source
    /\ lhs.target = rhs.target
    /\ lhs.data_range = rhs.data_range

\* Node::get_connections: the exit edges whose target is the given node.
get_connections(exits, target) ==
    SelectSeq(exits, LAMBDA e : e.target = target)

\* Node::is_critical: _critical is false from construction until
\* set_critical(), which is not called while the graph is being built.
is_critical(n) == FALSE

\* "store the edge type as used": the switch of connect_nodes.
usedIndex(e) ==
    (IF e.kind = "Nesting" THEN {3}
     ELSE IF e.kind = "Synchronization" THEN {0}
     ELSE IF e.dep_type = "True" THEN {0}
     ELSE IF e.dep_type = "Anti" THEN {1}
     ELSE IF e.dep_type = "Output" THEN {2}
     ELSE {})
    \cup (IF is_critical(e.source) /\ is_critical(e.target) THEN {4} ELSE {})

InitTG ==
    /\ tgpc = EmptyMap
    /\ new_edge = EmptyMap
    /\ nodeLock = EmptyMap
    /\ exit_edges = EmptyMap
    /\ entry_edges = EmptyMap
    /\ used_edge_types = {}
    /\ connectCalls = 0

\* atomic_flag Finish::Servant::_finished: the flag is constructed clear, and
\* no servant exists yet.
InitFinish ==
    /\ finished = FALSE
    /\ servants = {}
    /\ serves = 0
    /\ observed = EmptyMap

\* No call of the memory services has been made.
InitMemory ==
    /\ apiArgs = [start_node |-> 0, num_nodes |-> 0, nodes |-> 0]
    /\ apiRet = "none"
    /\ apiDid = {}

\* T *elem = NULL in RequestMap::fetch.
NoElem == "NULL"

\* No descriptor is cloned, the queue and the map are empty, no
\* DeviceOpsPtr is constructed.
InitRest ==
    /\ outputObjects = EmptyMap
    /\ readObjects = EmptyMap
    /\ deleted = EmptyMap
    /\ allocated = 0
    /\ predecessorFinished = EmptyMap
    /\ queue = <<>>
    /\ qlock = NoThread
    /\ rqpc = EmptyMap
    /\ added = <<>>
    /\ returned = <<>>
    /\ map = EmptyMap
    /\ reported = 0
    /\ mapAdds = 0
    /\ fetched = NoElem
    /\ notFound = 0
    /\ mapFetches = 0
    /\ value = EmptyMap
    /\ refs = EmptyMap
    /\ ptrs = {}
    /\ InitFinish
    /\ InitMemory

-----------------------------------------------------------------------------
Init ==
    /\ pc = [d \in DObj |-> "none"]
    /\ flags = [d \in DObj |-> [submitted |-> FALSE, needsSubmission |-> FALSE]]
    /\ numPred = [d \in DObj |-> 0]
    /\ successors = [d \in DObj |-> {}]
    /\ predecessors = [d \in DObj |-> {}]
    /\ run = [d \in DObj |-> "idle"]
    /\ todo = [d \in DObj |-> {}]
    /\ batch = [d \in DObj |-> FALSE]
    /\ pending = [d \in DObj |-> {}]
    /\ deliveries = [d \in DObj |-> 0]
    /\ atSucc = [m \in {0, 1} |-> [e \in DObj \X DObj |-> 0]]
    /\ submitCalls = [d \in DObj |-> 0]
    /\ life = EmptyMap
    /\ references = EmptyMap
    /\ dtodo = EmptyMap
    /\ lock = EmptyMap
    /\ InitTG
    /\ waitReturned = FALSE
    /\ last_writer = EmptyMap
    /\ last_readers = EmptyMap
    /\ acc = EmptyMap
    /\ plan = EmptyMap
    /\ InitRest

\* submit(task_DO, access_list) begins: the domain lock is taken, so one
\* object at a time registers its accesses; ids are assigned in order.
BeginSubmit(d) ==
    /\ pc[d] = "none"
    /\ \A e \in DObj : e < d => pc[e] \in {"marked", "done"}
    /\ pc' = [pc EXCEPT ![d] = "linking"]
    /\ UNCHANGED <<flags, numPred, successors, predecessors, run, todo, batch,
                   pending, deliveries, atSucc>>
    /\ UNCHANGED <<submitCalls, extVars>>

\* Edge creation P -> T under P's object lock: addSuccessor, and for a new
\* edge the back-edge and the predecessor count of the target.
ConnectEdge(P, T) ==
    /\ P # T
    /\ pc[T] = "linking"
    /\ pc[P] \in {"marked", "done"}
    /\ run[P] # "finished"
    /\ Resolutions(T) < MaxConnect
    /\ LET s == addSuccessor(successors[P], T)
           p == addPredecessor(predecessors[T], P)
       IN  /\ atSucc' = atSuccessor(atSucc, T, P, 0)
           /\ successors' = [successors EXCEPT ![P] = s.set]
           /\ IF s.inserted
              THEN /\ predecessors' = [predecessors EXCEPT ![T] = p.set]
                   /\ numPred' = [numPred EXCEPT ![T] = increasePredecessors(@)]
              ELSE UNCHANGED <<predecessors, numPred>>
    /\ UNCHANGED <<pc, flags, run, todo, batch, pending, deliveries>>
    /\ UNCHANGED <<submitCalls, lifeVars>>

\* The domain creates the edge P -> T while it links T.
Connect(P, T) ==
    /\ ConnectEdge(P, T)
    /\ UNCHANGED otherVars

\* All edges of T are installed: T.submitted = true, the domain lock is left.
MarkSubmitted(T) ==
    /\ pc[T] = "linking"
    /\ pc' = [pc EXCEPT ![T] = "marked"]
    /\ flags' = [flags EXCEPT ![T] = submitted(@)]
    /\ submitCalls' = [submitCalls EXCEPT ![T] = @ + 1]
    /\ UNCHANGED <<numPred, successors, predecessors, run, todo, batch,
                   pending, deliveries, atSucc>>
    /\ UNCHANGED extVars

\* maybe_release(T): if num_predecessors == 0, hand T to the scheduler.
MaybeRelease(T) ==
    /\ pc[T] = "marked"
    /\ pc' = [pc EXCEPT ![T] = "done"]
    /\ IF numPred[T] = 0
       THEN deliveries' = dependenciesSatisfied(deliveries, T)
       ELSE UNCHANGED deliveries
    /\ UNCHANGED <<flags, numPred, successors, predecessors, run, todo, batch,
                   pending, atSucc>>
    /\ UNCHANGED <<submitCalls, extVars>>

\* submitted() called again on an object that was already marked.
SubmittedAgain(d) ==
    /\ pc[d] \in {"marked", "done"}
    /\ submitCalls[d] < MaxSubmits
    /\ flags' = [flags EXCEPT ![d] = submitted(@)]
    /\ submitCalls' = [submitCalls EXCEPT ![d] = @ + 1]
    /\ UNCHANGED <<pc, numPred, successors, predecessors, run, todo, batch,
                   pending, deliveries, atSucc>>
    /\ UNCHANGED extVars

EnableSubmission(d) ==
    /\ pc[d] # "none"
    /\ flags' = [flags EXCEPT ![d] = enableSubmission(@)]
    /\ UNCHANGED <<pc, numPred, successors, predecessors, run, todo, batch,
                   pending, deliveries, atSucc>>
    /\ UNCHANGED <<submitCalls, extVars>>

DisableSubmission(d) ==
    /\ pc[d] # "none"
    /\ flags' = [flags EXCEPT ![d] = disableSubmission(@)]
    /\ UNCHANGED <<pc, numPred, successors, predecessors, run, todo, batch,
                   pending, deliveries, atSucc>>
    /\ UNCHANGED <<submitCalls, extVars>>

\* READY -> RUNNING: the scheduler dispatches an object it was handed.
Dispatch(d) ==
    /\ deliveries[d] > 0
    /\ run[d] = "idle"
    /\ run' = [run EXCEPT ![d] = "running"]
    /\ UNCHANGED <<pc, flags, numPred, successors, predecessors, todo, batch,
                   pending, deliveries, atSucc>>
    /\ UNCHANGED <<submitCalls, extVars>>

\* RUNNING -> FINISHED: under its own lock the object takes the list of its
\* successors; from now on no edge leaves it. With several successors to
\* release it may choose batch mode.
Finish(P, b) ==
    /\ run[P] = "running"
    /\ b => Cardinality(successors[P]) > 1
    /\ run' = [run EXCEPT ![P] = "finished"]
    /\ todo' = [todo EXCEPT ![P] = successors[P]]
    /\ batch' = [batch EXCEPT ![P] = b]
    /\ UNCHANGED <<pc, flags, numPred, successors, predecessors, pending,
                   deliveries, atSucc>>
    /\ UNCHANGED <<submitCalls, extVars>>

\* The finished object P calls S.decreasePredecessors( ..., P, batch, ... ).
Decrement(P, S) ==
    /\ S \in todo[P]
    /\ LET r == decreasePredecessors(numPred[S], batch[P])
       IN  /\ numPred' = [numPred EXCEPT ![S] = r.numPred]
           /\ atSucc' = atSuccessor(atSucc, S, P, 1)
           /\ IF r.satisfied
              THEN deliveries' = dependenciesSatisfied(deliveries, S)
              ELSE UNCHANGED deliveries
           /\ pending' = IF batch[P] /\ r.numPred = 0
                         THEN [pending EXCEPT ![P] = @ \cup {S}]
                         ELSE pending
    /\ todo' = [todo EXCEPT ![P] = @ \ {S}]
    /\ UNCHANGED <<pc, flags, successors, predecessors, run, batch>>
    /\ UNCHANGED <<submitCalls, extVars>>

\* Batch mode: after the last decrement the caller releases, in one
\* notification, the successors it brought to zero that are submitted; the
\* others are left to their own submission's release check.
BatchRelease(P) ==
    /\ todo[P] = {}
    /\ pending[P] # {}
    /\ deliveries' = [d \in DObj |->
                        IF d \in pending[P] /\ flags[d].submitted
                        THEN dependenciesSatisfied(deliveries, d)[d]
                        ELSE deliveries[d]]
    /\ pending' = [pending EXCEPT ![P] = {}]
    /\ UNCHANGED <<pc, flags, numPred, successors, predecessors, run, todo,
                   batch, atSucc>>
    /\ UNCHANGED <<submitCalls, extVars>>

\* References held over all objects.
HeldReferences ==
    LET held[i \in 0..NumObjects] ==
            IF i = 0 THEN 0 ELSE held[i - 1] + Refs(i)
    IN  held[NumObjects]

\* An external holder takes a reference on a submitted object.
IncreaseReferences(d) ==
    /\ pc[d] = "done"
    /\ Life(d) = "live"
    /\ HeldReferences < MaxRefs
    /\ references' = Upd(references, d, increaseReferences(Refs(d)), 0)
    /\ UNCHANGED <<pc, flags, numPred, successors, predecessors, run, todo,
                   batch, pending, deliveries, atSucc, submitCalls>>
    /\ UNCHANGED <<life, dtodo, lock>>
    /\ UNCHANGED otherVars

\* resetReferences(): the object is left with the single reference of its
\* only holder.
ResetReferences(d) ==
    /\ pc[d] = "done"
    /\ Life(d) = "live"
    /\ HeldReferences - Refs(d) < MaxRefs
    /\ references' = Upd(references, d, resetReferences(Refs(d)), 0)
    /\ UNCHANGED <<pc, flags, numPred, successors, predecessors, run, todo,
                   batch, pending, deliveries, atSucc, submitCalls>>
    /\ UNCHANGED <<life, dtodo, lock>>
    /\ UNCHANGED otherVars

\* decrease_references: a holder lets go.
DecreaseReferences(d) ==
    /\ Refs(d) > 0
    /\ references' = Upd(references, d, Refs(d) - 1, 0)
    /\ UNCHANGED <<pc, flags, numPred, successors, predecessors, run, todo,
                   batch, pending, deliveries, atSucc, submitCalls>>
    /\ UNCHANGED <<life, dtodo, lock>>
    /\ UNCHANGED otherVars

\* FINISHED -> REAPED: the object is destroyed when it is FINISHED, has
\* released its successors, no reference is held and no other object lists it
\* as a predecessor. ~DependableObject() begins: SyncLockBlock lock(
\* this->getLock() ), and the loop over _predecessors starts.
DestroyBegin(D) ==
    /\ Life(D) = "live"
    /\ pc[D] = "done"
    /\ run[D] = "finished"
    /\ todo[D] = {} /\ pending[D] = {}
    /\ Refs(D) = 0
    /\ \A S \in DObj \ {D} : Life(S) # "dead" => D \notin predecessors[S]
    /\ Lock(D) = 0
    /\ lock' = Upd(lock, D, D, 0)
    /\ life' = Upd(life, D, "destroying", "live")
    /\ dtodo' = Upd(dtodo, D, predecessors[D], {})
    /\ UNCHANGED <<pc, flags, numPred, successors, predecessors, run, todo,
                   batch, pending, deliveries, atSucc, submitCalls, references>>
    /\ UNCHANGED otherVars

\* Loop body of the destructor: ( *it )->deleteSuccessor( *this ), with the
\* lock of the destroyed object held.
DestroyStep(D, P) ==
    /\ Life(D) = "destroying"
    /\ P \in Dtodo(D)
    /\ successors' = [successors EXCEPT ![P] = deleteSuccessor(@, D).set]
    /\ dtodo' = Upd(dtodo, D, Dtodo(D) \ {P}, {})
    /\ UNCHANGED <<pc, flags, numPred, predecessors, run, todo, batch, pending,
                   deliveries, atSucc, submitCalls, life, references, lock>>
    /\ UNCHANGED otherVars

\* The loop is over: the lock is released, the descriptors of both lists
\* are deleted and the object, with its vectors, is gone.
DestroyEnd(D) ==
    /\ Life(D) = "destroying"
    /\ Dtodo(D) = {}
    /\ lock' = Upd(lock, D, 0, 0)
    /\ deleted' = deleter(deleter(deleted, OutputObjects(D)), ReadObjects(D))
    /\ outputObjects' = Upd(outputObjects, D, <<>>, <<>>)
    /\ readObjects' = Upd(readObjects, D, <<>>, <<>>)
    /\ life' = Upd(life, D, "dead", "live")
    /\ UNCHANGED <<pc, flags, numPred, successors, predecessors, run, todo,
                   batch, pending, deliveries, atSucc, submitCalls, references,
                   dtodo>>
    /\ UNCHANGED <<allocated, predecessorFinished>>
    /\ UNCHANGED <<waitVars, tgVars, domVars, rqVars, mapVars, opsVars,
                 finVars, memVars>>

\* The accesses of the object that is being submitted are recorded:
\* addWriteTarget with a clone of the descriptor.
AddWriteTarget(d) ==
    /\ pc[d] = "linking"
    /\ allocated < MaxTargets
    /\ allocated' = allocated + 1
    /\ outputObjects' =
           Upd(outputObjects, d, addWriteTarget(OutputObjects(d), allocated + 1),
               <<>>)
    /\ UNCHANGED <<readObjects, deleted, predecessorFinished>>
    /\ UNCHANGED <<doVars, waitVars, tgVars, domVars, rqVars, mapVars,
                 opsVars, finVars, memVars>>

AddReadTarget(d) ==
    /\ pc[d] = "linking"
    /\ allocated < MaxTargets
    /\ allocated' = allocated + 1
    /\ readObjects' =
           Upd(readObjects, d, addReadTarget(ReadObjects(d), allocated + 1), <<>>)
    /\ UNCHANGED <<outputObjects, deleted, predecessorFinished>>
    /\ UNCHANGED <<doVars, waitVars, tgVars, domVars, rqVars, mapVars,
                 opsVars, finVars, memVars>>

\* operator=: this takes the fields of depObj, among them the vector
\* _outputObjects (the pointers, not new clones); _readObjects is not
\* assigned. Assigning an object to itself changes nothing.
OperatorAssign(this, depObj) ==
    /\ this # depObj
    /\ Life(this) = "live" /\ Life(depObj) = "live"
    /\ numPred' = [numPred EXCEPT ![this] = numPred[depObj]]
    /\ references' = Upd(references, this, Refs(depObj), 0)
    /\ predecessors' = [predecessors EXCEPT ![this] = predecessors[depObj]]
    /\ successors' = [successors EXCEPT ![this] = successors[depObj]]
    /\ outputObjects' = Upd(outputObjects, this, OutputObjects(depObj), <<>>)
    /\ flags' = [flags EXCEPT ![this] = flags[depObj]]
    /\ UNCHANGED <<pc, run, todo, batch, pending, deliveries, atSucc,
                   submitCalls, life, dtodo, lock>>
    /\ UNCHANGED <<readObjects, deleted, allocated, predecessorFinished>>
    /\ UNCHANGED <<waitVars, tgVars, domVars, rqVars, mapVars, opsVars,
                 finVars, memVars>>

-----------------------------------------------------------------------------
(* RequestQueue of the cluster layer (requestqueue.hpp).                   *)

\* The value of an expression whose evaluation is undefined.
Undefined == -1

\* A thread outside the methods of the queue.
Idle == [pc |-> "idle", elem |-> NULL, empty |-> FALSE]

\* Position of thread t, its local elem and, for fetch, whether the queue
\* was empty during the call.
Rqpc(t) == At(rqpc, t, Idle)

\* The pointers handed to add so far.
Handed ==
    Range(added)
    \cup {Rqpc(t).elem : t \in {u \in Threads : Rqpc(u).pc = "push"}}

\* _queue.push_back( elem ), _queue.front() and _queue.pop_front().
push_back(q, elem) == Append(q, elem)
front(q) == Head(q)
pop_front_keep(q) == q
pop_front(q) == Tail(q)

\* add( elem ): _lock.acquire() returns; the caller passes a pointer that is
\* not in the queue yet.
Add(t) ==
    /\ Rqpc(t).pc = "idle"
    /\ Cardinality(Handed) < MaxElems
    /\ qlock = NoThread
    /\ qlock' = t
    /\ rqpc' = Upd(rqpc, t, [pc |-> "push", elem |-> Cardinality(Handed) + 1,
                             empty |-> FALSE], Idle)
    /\ UNCHANGED <<queue, added, returned, notRQ>>

AddPush(t) ==
    /\ Rqpc(t).pc = "push"
    /\ queue' = push_back(queue, Rqpc(t).elem)
    /\ added' = Append(added, Rqpc(t).elem)
    /\ rqpc' = Upd(rqpc, t, [Rqpc(t) EXCEPT !.pc = "addRelease"], Idle)
    /\ UNCHANGED <<qlock, returned, notRQ>>

AddRelease(t) ==
    /\ Rqpc(t).pc = "addRelease"
    /\ qlock' = NoThread
    /\ rqpc' = Upd(rqpc, t, Idle, Idle)
    /\ UNCHANGED <<queue, added, returned, notRQ>>

\* fetch(): elem = NULL and _lock.acquire() returns.
Fetch(t) ==
    /\ Rqpc(t).pc = "idle"
    /\ qlock = NoThread
    /\ qlock' = t
    /\ rqpc' = Upd(rqpc, t, [pc |-> "fetchRelease", elem |-> NULL,
                             empty |-> queue = <<>>], Idle)
    /\ UNCHANGED <<queue, added, returned, notRQ>>

\* fetch(): _lock.release(), and the end of the function is reached with no
\* return statement: what the caller receives is undefined, it may be any
\* pointer, the null pointer among them.
FetchRelease(t) ==
    /\ Rqpc(t).pc = "fetchRelease"
    /\ qlock' = NoThread
    /\ \E v \in {NULL, Undefined} \cup (1..MaxElems) :
          rqpc' = Upd(rqpc, t, [Rqpc(t) EXCEPT !.pc = "fetchReturn", !.elem = v],
                      Idle)
    /\ UNCHANGED <<queue, added, returned, notRQ>>

\* The caller of fetch() has its result.
FetchReturn(t) ==
    /\ Rqpc(t).pc = "fetchReturn"
    /\ rqpc' = Upd(rqpc, t, Idle, Idle)
    /\ UNCHANGED <<queue, qlock, added, returned, notRQ>>

\* tryFetch(): elem = NULL; if ( _lock.tryAcquire() ) ... return elem.
TryFetch(t) ==
    /\ Rqpc(t).pc = "idle"
    /\ IF qlock = NoThread
       THEN /\ qlock' = t
            /\ rqpc' = Upd(rqpc, t, [Idle EXCEPT !.pc = "front"], Idle)
       ELSE /\ qlock' = qlock
            /\ rqpc' = Upd(rqpc, t, [Idle EXCEPT !.pc = "return"], Idle)
    /\ UNCHANGED <<queue, added, returned, notRQ>>

\* if ( !_queue.empty() ) { elem = _queue.front(); _queue.pop_front(); }
TryFetchFront(t) ==
    /\ Rqpc(t).pc = "front"
    /\ IF queue # <<>>
       THEN /\ rqpc' = Upd(rqpc, t, [Rqpc(t) EXCEPT !.pc = "release",
                                                    !.elem = front(queue)], Idle)
            /\ returned' = Append(returned, front(queue))
            /\ queue' = pop_front(queue)
       ELSE /\ rqpc' = Upd(rqpc, t, [Rqpc(t) EXCEPT !.pc = "release"], Idle)
            /\ UNCHANGED <<queue, returned>>
    /\ UNCHANGED <<qlock, added, notRQ>>

TryFetchRelease(t) ==
    /\ Rqpc(t).pc = "release"
    /\ qlock' = NoThread
    /\ rqpc' = Upd(rqpc, t, [Rqpc(t) EXCEPT !.pc = "return"], Idle)
    /\ UNCHANGED <<queue, added, returned, notRQ>>

\* return elem;
TryFetchReturn(t) ==
    /\ Rqpc(t).pc = "return"
    /\ rqpc' = Upd(rqpc, t, Idle, Idle)
    /\ UNCHANGED <<queue, qlock, added, returned, notRQ>>

\* A step of a tryFetch call.
TryFetchStep(t) ==
    \/ TryFetch(t)
    \/ TryFetchFront(t)
    \/ TryFetchRelease(t)
    \/ TryFetchReturn(t)

\* Threads that add to the queue and poll it.
NextRQ ==
    \/ \E t \in Threads : Add(t)
    \/ \E t \in Threads : AddPush(t)
    \/ \E t \in Threads : AddRelease(t)
    \/ \E t \in Threads : TryFetch(t)
    \/ \E t \in Threads : TryFetchFront(t)
    \/ \E t \in Threads : TryFetchRelease(t)
    \/ \E t \in Threads : TryFetchReturn(t)

SpecRQ == Init /\ [][NextRQ]_vars

\* The same threads, some of which call fetch().
NextFetch ==
    \/ NextRQ
    \/ \E t \in Threads : Fetch(t)
    \/ \E t \in Threads : FetchRelease(t)
    \/ \E t \in Threads : FetchReturn(t)

SpecFetch == Init /\ [][NextFetch]_vars

-----------------------------------------------------------------------------
(* RequestMap of the cluster layer (requestqueue.hpp).                     *)

Keys == 1..MaxKey
Elems == {"a", "b"}

\* _map.end()
NoKey == 0

\* std::map::lower_bound: the first key not less than key, or end().
lower_bound(m, key) ==
    LET ge == {k \in DOMAIN m : k >= key}
    IN  IF ge = {} THEN NoKey ELSE CHOOSE k \in ge : \A j \in ge : k <= j

\* _map.key_comp(): std::less on the keys.
key_comp(a, b) == a < b

\* std::map::insert with a hint: the pair is inserted unless the key is
\* there, in which case the map stays as it is.
insert(m, key, elem) ==
    IF key \in DOMAIN m THEN m
    ELSE [k \in DOMAIN m \cup {key} |-> IF k = key THEN elem ELSE m[k]]

\* RequestMap::add( key, elem ), the whole call under _lock. The test is
\* it != _map.end() || key_comp( key, it->first ): with it at end() the
\* second operand reads it->first of the end iterator, an undefined value,
\* so the comparison can come out either way.
MapAdd(key, elem) ==
    /\ mapAdds < MaxAdds
    /\ mapAdds' = mapAdds + 1
    /\ LET it == lower_bound(map, key)
       IN  \E test \in (IF it # NoKey THEN {TRUE}
                        ELSE {key_comp(key, first) : first \in 0..(MaxKey + 1)}) :
               IF test
               THEN /\ map' = insert(map, key, elem)
                    /\ reported' = reported
               ELSE /\ map' = map
                    /\ reported' = reported + 1
    /\ UNCHANGED <<notMap, mfVars>>

NextMap ==
    \E key \in Keys : \E elem \in Elems : MapAdd(key, elem)

SpecMap == Init /\ [][NextMap]_vars

\* A T* whose value no statement of the program determines.
Indeterminate == "indeterminate"

\* The values a T* can hold.
Pointers == Elems \cup {NoElem, Indeterminate}

\* RequestMap::fetch( key ), the whole call under _lock. The test is the
\* one of add: with it at end() it reads it->first of the end iterator and
\* can come out either way. When it is true the error is written and elem
\* stays NULL; when it is false, it is end() and elem takes it->second of
\* the end iterator. The function ends without a return statement, so the
\* caller receives a value that elem does not determine. _map is only read.
MapFetch(key) ==
    /\ mapFetches < MaxFetches
    /\ mapFetches' = mapFetches + 1
    /\ LET it == lower_bound(map, key)
       IN  \E test \in (IF it # NoKey THEN {TRUE}
                        ELSE {key_comp(key, first) : first \in 0..(MaxKey + 1)}) :
               /\ notFound' = IF test THEN notFound + 1 ELSE notFound
               /\ \E elem \in (IF test THEN {NoElem} ELSE Pointers) :
                      \E result \in Pointers : fetched' = result
    /\ UNCHANGED <<map, reported, mapAdds, notMap>>

\* Calls of add and of fetch on one map.
NextMapFetch ==
    \/ NextMap
    \/ \E key \in Keys : MapFetch(key)

SpecMapFetch == Init /\ [][NextMapFetch]_vars

-----------------------------------------------------------------------------
(* DeviceOpsPtr and DeviceOps (deviceops.hpp).                             *)

\* Addresses at which a DeviceOpsPtr can be constructed, and the DeviceOps
\* objects.
Ptrs == 1..MaxPtrs
Ops == 1..MaxOps

\* _value of the pointer at address p (NULL also when no pointer is alive
\* there) and _refs of DeviceOps o.
Value(p) == At(value, p, NULL)
OpsRefs(o) == At(refs, o, {})

\* DeviceOps::addFirstRef( opsPtr ): _refs.insert( opsPtr ) under _lock.
addFirstRef_skip(r, opsPtr) == r
addFirstRef(r, opsPtr) == r \cup {opsPtr}

\* DeviceOps::delRef( opsPtr ): _refs.erase( opsPtr ) under _lock.
delRef(r, opsPtr) == r \ {opsPtr}

\* DeviceOps::addRef( opsPtr, p ): the new pointer is registered only if p,
\* the pointer it is copied from, is registered; the result tells whether.
addRef(r, opsPtr, p) ==
    [refs |-> IF p \in r THEN r \cup {opsPtr} ELSE r, result |-> p \in r]

\* Body shared by the copy constructors and the assignment operators: the
\* value and the reference sets after this has taken the value of p.
CopyFrom(this, p) ==
    LET tmpValue == Value(p)
        a == addRef(OpsRefs(tmpValue), this, p)
    IN  IF tmpValue # NULL
        THEN [value |-> Upd(value, this, IF a.result THEN tmpValue ELSE NULL,
                            NULL),
              refs |-> Upd(refs, tmpValue, a.refs, {})]
        ELSE [value |-> Upd(value, this, NULL, NULL), refs |-> refs]

\* DeviceOpsPtr(): a pointer is constructed at a free address, not set.
Construct(this) ==
    /\ this \notin ptrs
    /\ ptrs' = ptrs \cup {this}
    /\ value' = Upd(value, this, NULL, NULL)
    /\ UNCHANGED <<refs, notOps>>

\* DeviceOpsPtr( DeviceOpsPtr &p ) and DeviceOpsPtr( DeviceOpsPtr const &p ).
CopyConstruct(this, p) ==
    /\ this \notin ptrs
    /\ p \in ptrs
    /\ ptrs' = ptrs \cup {this}
    /\ value' = CopyFrom(this, p).value
    /\ refs' = CopyFrom(this, p).refs
    /\ UNCHANGED notOps

\* operator=( DeviceOpsPtr &p ) and operator=( DeviceOpsPtr const &p ).
AssignPtr(this, p) ==
    /\ this \in ptrs
    /\ p \in ptrs
    /\ value' = CopyFrom(this, p).value
    /\ refs' = CopyFrom(this, p).refs
    /\ UNCHANGED <<ptrs, notOps>>

\* set( ops ): _value = ops; _value->addFirstRef( this ).
Set(this, ops) ==
    /\ this \in ptrs
    /\ value' = Upd(value, this, ops, NULL)
    /\ refs' = Upd(refs, ops, addFirstRef(OpsRefs(ops), this), {})
    /\ UNCHANGED <<ptrs, notOps>>

\* clear(): _value = NULL.
Clear(this) ==
    /\ this \in ptrs
    /\ value' = Upd(value, this, NULL, NULL)
    /\ UNCHANGED <<refs, ptrs, notOps>>

\* ~DeviceOpsPtr(): if ( _value != NULL ) _value->delRef( this ).
DestroyPtr(this) ==
    /\ this \in ptrs
    /\ ptrs' = ptrs \ {this}
    /\ refs' = IF Value(this) # NULL
               THEN Upd(refs, Value(this), delRef(OpsRefs(Value(this)), this), {})
               ELSE refs
    /\ value' = Upd(value, this, NULL, NULL)
    /\ UNCHANGED notOps

NextOps ==
    \/ \E this \in Ptrs : Construct(this)
    \/ \E this \in Ptrs : \E p \in Ptrs : CopyConstruct(this, p)
    \/ \E this \in Ptrs : \E p \in Ptrs : AssignPtr(this, p)
    \/ \E this \in Ptrs : \E ops \in Ops : Set(this, ops)
    \/ \E this \in Ptrs : Clear(this)
    \/ \E this \in Ptrs : DestroyPtr(this)

SpecOps == Init /\ [][NextOps]_vars

-----------------------------------------------------------------------------
(* The Finish command of the MPI layer (finish.hpp).                       *)

Servants == 1..MaxServants

\* atomic_flag::test_and_set: the flag is set, whatever it was.
test_and_set(flag) == TRUE

\* atomic_flag::load: the flag as it is.
load(flag) == flag

\* _finished.test_and_set();
serve_nothing(flag) == flag

serve(flag) == test_and_set(flag)

\* return _finished.load();
isFinished(flag) == load(flag)

Observed(s) == At(observed, s, FALSE)

\* CommandServant( channel ) and CommandServant( channel, data ): _data and
\* _channel of the new servant are set, the static flag is not touched.
ServantConstruct(s) ==
    /\ s \notin servants
    /\ servants' = servants \cup {s}
    /\ UNCHANGED <<finished, serves, observed, notFin>>

\* ~CommandServant(): empty.
ServantDestroy(s) ==
    /\ s \in servants
    /\ servants' = servants \ {s}
    /\ UNCHANGED <<finished, serves, observed, notFin>>

\* Finish::Servant::serve() of the servant s.
Serve(s) ==
    /\ s \in servants
    /\ serves < MaxServes
    /\ serves' = serves + 1
    /\ finished' = serve(finished)
    /\ UNCHANGED <<servants, observed, notFin>>

\* isFinished() called through the servant s.
IsFinished(s) ==
    /\ s \in servants
    /\ observed' = Upd(observed, s, isFinished(finished), FALSE)
    /\ UNCHANGED <<finished, servants, serves, notFin>>

NextFinish ==
    \/ \E s \in Servants : ServantConstruct(s)
    \/ \E s \in Servants : ServantDestroy(s)
    \/ \E s \in Servants : Serve(s)
    \/ \E s \in Servants : IsFinished(s)

SpecFinish == Init /\ [][NextFinish]_vars

-----------------------------------------------------------------------------
(* Memory services of the C API (nanos_memory.cpp).                        *)

\* The values of an unsigned int and of a size_t.
UInt == 0..(2^UIntBits - 1)
SizeT == 0..(2^SizeBits - 1)

\* start_node > 0 && num_nodes > 0 && start_node < getNumNodes() &&
\* start_node + (num_nodes-1) < getNumNodes(): start_node and the number of
\* nodes are unsigned int, num_nodes is a size_t, and the sum is computed
\* in size_t. With num_nodes > 0 the subtraction does not wrap; the sum can.
nodesInRange(start_node, num_nodes, nodes) ==
    /\ start_node > 0
    /\ num_nodes > 0
    /\ start_node < nodes
    /\ (start_node + ((num_nodes - 1) % 2^SizeBits)) % 2^SizeBits < nodes

\* nanos_cmalloc_2dim_distributed( p, rows, cols, elem_size, start_node,
\* num_nodes, file, line ) on a network of the given number of nodes. When
\* the test passes, allocate_none, _registerMemoryChunk_2dim and
\* _distributeObject are called in this order; a nanos_err_t that one of
\* them throws ends the call, which returns it. rows, cols and elem_size
\* only make up the size of the chunk and are left out.
nanos_cmalloc_2dim_distributed(start_node, num_nodes, nodes) ==
    /\ apiArgs' = [start_node |-> start_node, num_nodes |-> num_nodes,
                   nodes |-> nodes]
    /\ IF nodesInRange(start_node, num_nodes, nodes)
       THEN \E thrown \in {"allocate_none", "_registerMemoryChunk_2dim",
                            "_distributeObject", "nothing"} :
               /\ apiRet' = IF thrown = "nothing" THEN "NANOS_OK" ELSE "e"
               /\ apiDid' =
                      CASE thrown = "allocate_none" -> {}
                        [] thrown = "_registerMemoryChunk_2dim" ->
                               {"allocate_none"}
                        [] thrown = "_distributeObject" ->
                               {"allocate_none", "_registerMemoryChunk_2dim"}
                        [] OTHER ->
                               {"allocate_none", "_registerMemoryChunk_2dim",
                                "_distributeObject"}
       ELSE /\ apiRet' = "NANOS_INVALID_PARAM"
            /\ apiDid' = {}
    /\ UNCHANGED notMem

\* Calls of the service with any arguments on any network of at least one
\* node.
NextMemory ==
    \E start_node \in UInt : \E num_nodes \in SizeT : \E nodes \in UInt \ {0} :
        nanos_cmalloc_2dim_distributed(start_node, num_nodes, nodes)

SpecMemory == Init /\ [][NextMemory]_vars

-----------------------------------------------------------------------------
\* The runtime: submission, dispatch and completion of tasks.
Next ==
    \/ \E d \in 1..NumTasks : BeginSubmit(d)
    \/ \E P \in DObj : \E T \in DObj : Connect(P, T)
    \/ \E d \in DObj : MarkSubmitted(d)
    \/ \E d \in DObj : MaybeRelease(d)
    \/ \E d \in DObj : Dispatch(d)
    \/ \E d \in DObj : \E b \in BOOLEAN : Finish(d, b)
    \/ \E P \in DObj : \E S \in DObj : Decrement(P, S)
    \/ \E d \in DObj : BatchRelease(d)

Spec == Init /\ [][Next]_vars

\* The runtime with threads that keep going: the submitter finishes the
\* submission it has begun, the scheduler dispatches what it was handed,
\* every dispatched task finishes, and a finished task releases its
\* successors.
Fairness ==
    /\ \A d \in DObj : WF_vars(MarkSubmitted(d))
    /\ \A d \in DObj : WF_vars(MaybeRelease(d))
    /\ \A d \in DObj : WF_vars(Dispatch(d))
    /\ \A d \in DObj : WF_vars(\E b \in BOOLEAN : Finish(d, b))
    /\ \A P \in DObj : \A S \in DObj : WF_vars(Decrement(P, S))
    /\ \A P \in DObj : WF_vars(BatchRelease(P))

SpecFair == Spec /\ Fairness

\* The submission flags under any sequence of submitted(), enableSubmission()
\* and disableSubmission() applied to objects moving through submission.
NextFlags ==
    \/ \E d \in 1..NumTasks : BeginSubmit(d)
    \/ \E d \in DObj : MarkSubmitted(d)
    \/ \E d \in DObj : MaybeRelease(d)
    \/ \E d \in DObj : SubmittedAgain(d)
    \/ \E d \in DObj : EnableSubmission(d)
    \/ \E d \in DObj : DisableSubmission(d)

SpecFlags == Init /\ [][NextFlags]_vars

\* The life of the objects up to their destruction: the task pipeline with
\* immediate release of successors, reference holders and the destructor.
NextLife ==
    \/ \E d \in 1..LifeTasks : BeginSubmit(d)
    \/ \E P \in DObj : \E T \in DObj : Connect(P, T)
    \/ \E d \in DObj : MarkSubmitted(d)
    \/ \E d \in DObj : MaybeRelease(d)
    \/ \E d \in DObj : Dispatch(d)
    \/ \E d \in DObj : Finish(d, FALSE)
    \/ \E P \in DObj : \E S \in DObj : Decrement(P, S)
    \/ \E d \in DObj : IncreaseReferences(d)
    \/ \E d \in DObj : ResetReferences(d)
    \/ \E d \in DObj : DecreaseReferences(d)
    \/ \E d \in DObj : DestroyBegin(d)
    \/ \E D \in DObj : \E P \in DObj : DestroyStep(D, P)
    \/ \E d \in DObj : DestroyEnd(d)

SpecLife == Init /\ [][NextLife]_vars

\* The life of objects that record their accesses and may be assigned to one
\* another.
NextOwn ==
    \/ NextLife
    \/ \E d \in DObj : AddWriteTarget(d)
    \/ \E d \in DObj : AddReadTarget(d)
    \/ \E this \in 1..LifeTasks : \E depObj \in 1..LifeTasks :
          OperatorAssign(this, depObj)

SpecOwn == Init /\ [][NextOwn]_vars

\* The taskwait object has an edge from every outstanding task of the scope:
\* the end of its submission.
TaskwaitSubmitted ==
    /\ \A P \in 1..(WaitTasks - 1) :
          run[P] = "finished" \/ WaitTasks \in successors[P]
    /\ MarkSubmitted(WaitTasks)

\* wait_for_completion() of the taskwait object returns: it blocks until
\* num_predecessors is 0.
WaitForCompletion ==
    /\ pc[WaitTasks] = "done"
    /\ numPred[WaitTasks] = 0
    /\ ~waitReturned
    /\ waitReturned' = TRUE
    /\ UNCHANGED <<doVars, tgVars, domVars, restVars>>

\* Tasks of one scope followed by a taskwait.
NextWait ==
    \/ \E d \in 1..WaitTasks : BeginSubmit(d)
    \/ \E P \in DObj : \E T \in DObj : Connect(P, T)
    \/ \E d \in 1..(WaitTasks - 1) : MarkSubmitted(d)
    \/ TaskwaitSubmitted
    \/ \E d \in DObj : MaybeRelease(d)
    \/ \E d \in 1..(WaitTasks - 1) : Dispatch(d)
    \/ \E d \in DObj : \E b \in BOOLEAN : Finish(d, b)
    \/ \E P \in DObj : \E S \in DObj : Decrement(P, S)
    \/ \E d \in DObj : BatchRelease(d)
    \/ WaitForCompletion

SpecWait == Init /\ [][NextWait]_vars

\* submit(T, access_list), one access: the domain looks the region up in the
\* region map, plans the edges (from the last writer for an input; from the
\* last writer and the readers for an output) and updates the record.
RegisterAccess(T, r, m) ==
    /\ pc[T] = "linking"
    /\ Plan(T) = {}
    /\ <<r, m>> \notin Acc(T)
    /\ Cardinality(Acc(T)) < MaxAccesses
    /\ acc' = Upd(acc, T, Acc(T) \cup {<<r, m>>}, {})
    /\ LET W == IF LastWriter(r) \in {0, T} THEN {} ELSE {LastWriter(r)}
       IN  IF m = "input"
           THEN /\ plan' = Upd(plan, T, W, {})
                /\ last_readers' =
                       Upd(last_readers, r, LastReaders(r) \cup {T}, {})
                /\ UNCHANGED last_writer
           ELSE /\ plan' = Upd(plan, T, W \cup (LastReaders(r) \ {T}), {})
                /\ last_writer' = Upd(last_writer, r, T, 0)
                /\ last_readers' = Upd(last_readers, r, {}, {})
    /\ UNCHANGED <<doVars, waitVars, tgVars, restVars>>

\* The domain creates one planned edge.
DomainConnect(P, T) ==
    /\ P \in Plan(T)
    /\ ConnectEdge(P, T)
    /\ plan' = Upd(plan, T, Plan(T) \ {P}, {})
    /\ UNCHANGED <<waitVars, tgVars, restVars, last_writer, last_readers, acc>>

\* The source of a planned edge has already finished: no edge.
DomainSkip(P, T) ==
    /\ P \in Plan(T)
    /\ run[P] = "finished"
    /\ plan' = Upd(plan, T, Plan(T) \ {P}, {})
    /\ UNCHANGED <<doVars, waitVars, tgVars, restVars, last_writer,
                   last_readers, acc>>

\* All edges of the accesses of T are installed: the end of submit.
DomainSubmitted(T) ==
    /\ Acc(T) # {}
    /\ Plan(T) = {}
    /\ MarkSubmitted(T)

\* Tasks submitted through the dependency domain, released at once when
\* their predecessors finish.
NextDomain ==
    \/ \E d \in 1..DomTasks : BeginSubmit(d)
    \/ \E T \in DObj : \E r \in Regions : \E m \in Modes :
          RegisterAccess(T, r, m)
    \/ \E P \in DObj : \E T \in DObj : DomainConnect(P, T)
    \/ \E P \in DObj : \E T \in DObj : DomainSkip(P, T)
    \/ \E d \in DObj : DomainSubmitted(d)
    \/ \E d \in DObj : MaybeRelease(d)
    \/ \E d \in DObj : Dispatch(d)
    \/ \E d \in DObj : Finish(d, FALSE)
    \/ \E P \in DObj : \E S \in DObj : Decrement(P, S)

SpecDomain == Init /\ [][NextDomain]_vars

\* connect_nodes is called by thread t: source->_exit_lock.acquire() succeeds
\* and new_edge is allocated.
ConnectNodes(t, source, target, type, data) ==
    /\ Tgpc(t) = "idle"
    /\ connectCalls < MaxCalls
    /\ Holder(exit_lock(source)) = NoThread
    /\ nodeLock' = Upd(nodeLock, exit_lock(source), t, NoThread)
    /\ connectCalls' = connectCalls + 1
    /\ new_edge' = Upd(new_edge, t, [ptr |-> connectCalls + 1, kind |-> type[1],
                        dep_type |-> type[2], source |-> source,
                        target |-> target, data_range |-> data], NoEdge)
    /\ tgpc' = Upd(tgpc, t, "scan", "idle")
    /\ UNCHANGED <<exit_edges, entry_edges, used_edge_types, notTG>>

\* "If the edge is the same, don't connect it again": the scan of
\* get_connections; on an equal edge the exit lock is released and the call
\* returns, else the edge is pushed on the exit edges of the source.
ScanConnections(t) ==
    /\ Tgpc(t) = "scan"
    /\ LET e == NewEdge(t)
           c == get_connections(ExitEdges(e.source), e.target)
       IN  IF \E i \in 1..Len(c) : EdgeEq(c[i], e)
           THEN /\ nodeLock' =
                       Upd(nodeLock, exit_lock(e.source), NoThread, NoThread)
                /\ tgpc' = Upd(tgpc, t, "idle", "idle")
                /\ new_edge' = Upd(new_edge, t, NoEdge, NoEdge)
                /\ UNCHANGED exit_edges
           ELSE /\ exit_edges' =
                       Upd(exit_edges, e.source,
                           Append(ExitEdges(e.source), e), <<>>)
                /\ tgpc' = Upd(tgpc, t, "acquireEntry", "idle")
                /\ UNCHANGED <<nodeLock, new_edge>>
    /\ UNCHANGED <<entry_edges, used_edge_types, connectCalls, notTG>>

\* target->_entry_lock.acquire();
AcquireEntry(t) ==
    /\ Tgpc(t) = "acquireEntry"
    /\ Holder(entry_lock(NewEdge(t).target)) = NoThread
    /\ nodeLock' = Upd(nodeLock, entry_lock(NewEdge(t).target), t, NoThread)
    /\ tgpc' = Upd(tgpc, t, "pushEntry", "idle")
    /\ UNCHANGED <<new_edge, exit_edges, entry_edges, used_edge_types,
                   connectCalls, notTG>>

\* target->_entry_edges.push_back( new_edge );
PushEntry_skip(t) ==
    /\ Tgpc(t) = "pushEntry"
    /\ tgpc' = Upd(tgpc, t, "releaseEntry", "idle")
    /\ UNCHANGED <<new_edge, nodeLock, exit_edges, entry_edges,
                   used_edge_types, connectCalls, notTG>>

PushEntry(t) ==
    /\ Tgpc(t) = "pushEntry"
    /\ LET e == NewEdge(t)
       IN  entry_edges' =
               Upd(entry_edges, e.target, Append(EntryEdges(e.target), e), <<>>)
    /\ tgpc' = Upd(tgpc, t, "releaseEntry", "idle")
    /\ UNCHANGED <<new_edge, nodeLock, exit_edges, used_edge_types,
                   connectCalls, notTG>>

\* target->_entry_lock.release();
ReleaseEntry(t) ==
    /\ Tgpc(t) = "releaseEntry"
    /\ nodeLock' =
           Upd(nodeLock, entry_lock(NewEdge(t).target), NoThread, NoThread)
    /\ tgpc' = Upd(tgpc, t, "store", "idle")
    /\ UNCHANGED <<new_edge, exit_edges, entry_edges, used_edge_types,
                   connectCalls, notTG>>

\* The edge type is stored as used, source->_exit_lock.release(), return.
StoreAndReturn(t) ==
    /\ Tgpc(t) = "store"
    /\ used_edge_types' = used_edge_types \cup usedIndex(NewEdge(t))
    /\ nodeLock' =
           Upd(nodeLock, exit_lock(NewEdge(t).source), NoThread, NoThread)
    /\ tgpc' = Upd(tgpc, t, "idle", "idle")
    /\ new_edge' = Upd(new_edge, t, NoEdge, NoEdge)
    /\ UNCHANGED <<exit_edges, entry_edges, connectCalls, notTG>>

\* A step of some connect_nodes call that has taken its first lock.
ConnectProgress ==
    \E t \in Threads :
        \/ ScanConnections(t)
        \/ AcquireEntry(t)
        \/ PushEntry(t)
        \/ ReleaseEntry(t)
        \/ StoreAndReturn(t)

\* The threads of the instrumentation building the dumped graph.
NextTG ==
    \/ \E t \in Threads : \E source \in Nodes : \E target \in Nodes :
          \E type \in EdgeTypes : \E data \in DataRanges :
              ConnectNodes(t, source, target, type, data)
    \/ \E t \in Threads : ScanConnections(t)
    \/ \E t \in Threads : AcquireEntry(t)
    \/ \E t \in Threads : PushEntry(t)
    \/ \E t \in Threads : ReleaseEntry(t)
    \/ \E t \in Threads : StoreAndReturn(t)

SpecTG == Init /\ [][NextTG]_vars

TypeOK ==
    /\ pc \in [DObj -> {"none", "linking", "marked", "done"}]
    /\ numPred \in [DObj -> Int]
    /\ run \in [DObj -> {"idle", "running", "finished"}]
    /\ submitCalls \in [DObj -> 0..MaxSubmits]
    /\ \A d \in DObj :
          /\ Life(d) \in {"live", "destroying", "dead"}
          /\ Refs(d) \in 0..MaxRefs
          /\ Dtodo(d) \subseteq DObj
          /\ Lock(d) \in {0} \cup DObj
    /\ \A t \in Threads :
          Tgpc(t) \in {"idle", "scan", "acquireEntry", "pushEntry",
                       "releaseEntry", "store"}
    /\ \A l \in Nodes \X {"entry", "exit"} : Holder(l) \in Threads \cup {NoThread}
    /\ used_edge_types \subseteq 0..4
    /\ connectCalls \in 0..MaxCalls
    /\ waitReturned \in BOOLEAN
    /\ \A r \in Regions :
          /\ LastWriter(r) \in {0} \cup DObj
          /\ LastReaders(r) \subseteq DObj
    /\ \A d \in DObj :
          /\ Acc(d) \subseteq Regions \X Modes
          /\ Plan(d) \subseteq DObj
    /\ \A d \in DObj :
          /\ OutputObjects(d) \in Seq(1..MaxTargets)
          /\ ReadObjects(d) \in Seq(1..MaxTargets)
    /\ allocated \in 0..MaxTargets
    /\ \A x \in 1..MaxTargets : Deleted(x) \in Nat
    /\ DOMAIN predecessorFinished \subseteq DObj \X DObj
    /\ queue \in Seq(1..MaxElems)
    /\ added \in Seq(1..MaxElems)
    /\ returned \in Seq(1..MaxElems)
    /\ qlock \in Threads \cup {NoThread}
    /\ \A t \in Threads :
          /\ Rqpc(t).pc \in {"idle", "push", "addRelease", "fetchRelease",
                              "fetchReturn", "front", "release", "return"}
          /\ Rqpc(t).elem \in {NULL, Undefined} \cup (1..MaxElems)
    /\ DOMAIN map \subseteq Keys
    /\ \A k \in DOMAIN map : map[k] \in Elems
    /\ reported \in 0..MaxAdds
    /\ mapAdds \in 0..MaxAdds
    /\ fetched \in Pointers
    /\ notFound \in 0..MaxFetches
    /\ mapFetches \in 0..MaxFetches
    /\ finished \in BOOLEAN
    /\ servants \subseteq Servants
    /\ serves \in 0..MaxServes
    /\ DOMAIN observed \subseteq Servants
    /\ \A s \in Servants : Observed(s) \in BOOLEAN
    /\ apiArgs \in [start_node : UInt, num_nodes : SizeT, nodes : UInt]
    /\ apiRet \in {"none", "NANOS_OK", "NANOS_INVALID_PARAM", "e"}
    /\ apiDid \subseteq {"allocate_none", "_registerMemoryChunk_2dim",
                         "_distributeObject"}
    /\ ptrs \subseteq Ptrs
    /\ \A p \in Ptrs : Value(p) \in Ops \cup {NULL}
    /\ \A o \in Ops : OpsRefs(o) \subseteq Ptrs

\* The edge P -> T is live: it was created and P has not yet finished and
\* decremented T.
LiveEdge(P, T) ==
    /\ T \in successors[P]
    /\ (run[P] # "finished" \/ T \in todo[P])

\* P has finished and its decreasePredecessors call on S has returned.
Decremented(P, S) == atSucc[1][<<P, S>>] > 0

----------------------------------------------------------------------------
(* Properties.                                                             *)

\* C1: an object is handed to the scheduler (dependenciesSatisfied) only in a
\* step that sees its submitted flag true and leaves its predecessor count
\* at zero; in particular a decreasePredecessors call that brings the count
\* to zero on an object not yet marked submitted does not release it.
C1_ReleasedOnlyWhenSubmitted ==
    [][\A d \in DObj :
          deliveries'[d] > deliveries[d] =>
              flags[d].submitted /\ numPred'[d] = 0]_vars

\* C2: the successors of a task begin execution only after the task has
\* finished: whenever S has been dispatched, every T with an edge T -> S is
\* FINISHED.
C2_SuccessorsRunAfterFinish ==
    \A T \in DObj : \A S \in DObj :
        (S \in successors[T] /\ run[S] # "idle") => run[T] = "finished"

\* C3: num_predecessors never goes below zero, and every decrement consumes
\* an edge into the object that was live before the step.
C3_NoUnderflow ==
    /\ [](\A d \in DObj : numPred[d] >= 0)
    /\ [][\A S \in DObj :
            numPred'[S] < numPred[S] =>
                \E P \in DObj : LiveEdge(P, S) /\ ~LiveEdge(P, S)']_vars

\* C3 witness: an edge was counted and later consumed, leaving the count at 0.
C3_Witness ==
    \E P \in DObj : \E S \in DObj :
        S \in successors[P] /\ Decremented(P, S) /\ numPred[S] = 0

\* C4 as stated: the submitted flag, once true, is never reset to false,
\* whatever sequence of submitted(), enableSubmission() and
\* disableSubmission() is applied.
C4_NeverReset ==
    [][\A d \in DObj : flags[d].submitted => flags'[d].submitted]_vars

\* C4 as amended: submitted() sets the flag, and of the three operations only
\* disableSubmission() ever changes it from true to false.
C4_OnlyDisableResets ==
    [][\A d \in DObj :
          /\ (flags[d].submitted /\ ~flags'[d].submitted) => DisableSubmission(d)
          /\ (MarkSubmitted(d) \/ SubmittedAgain(d)) => flags'[d].submitted
          /\ EnableSubmission(d) => flags'[d].submitted = flags[d].submitted]_vars

\* C4 witness: an object that was marked submitted has its flag false again.
C4_Witness ==
    \E d \in DObj : pc[d] \in {"marked", "done"} /\ ~flags[d].submitted

\* C32: whatever sequence of submitted(), enableSubmission() and
\* disableSubmission() has been applied to a freshly created object, its
\* submitted flag implies its needsSubmission flag: no object is submitted
\* while its needsSubmission flag is false.
C32_SubmittedNeedsSubmission ==
    \A d \in DObj : flags[d].submitted => flags[d].needsSubmission

\* C32 witness: one object has both flags set after submitted() was called on
\* it twice, and another one that was marked submitted has had both flags
\* cleared by disableSubmission().
C32_Witness ==
    \E d \in DObj : \E e \in DObj :
        /\ d # e
        /\ submitCalls[d] >= 2
        /\ flags[d].submitted /\ flags[d].needsSubmission
        /\ submitCalls[e] >= 1
        /\ ~flags[e].submitted /\ ~flags[e].needsSubmission

\* C5: for every object T, num_predecessors equals the number of live edges
\* into T.
C5_CountEqualsLiveEdges ==
    \A T \in DObj :
        numPred[T] = Cardinality({P \in DObj : LiveEdge(P, T)})

\* C5 witness: T has had one of two incoming edges consumed and the other is
\* still live.
C5_Witness ==
    \E T \in DObj : \E P \in DObj : \E Q \in DObj :
        /\ P # Q
        /\ T \in successors[P] /\ Decremented(P, T)
        /\ LiveEdge(Q, T)
        /\ numPred[T] = 1

\* C6: creating an edge P -> S that already exists changes neither
\* P.successors nor S.predecessors nor S.num_predecessors.
C6_DuplicateEdgeNoOp ==
    [][\A P \in DObj : \A S \in DObj :
          (Connect(P, S) /\ S \in successors[P]) =>
              /\ successors' = successors
              /\ predecessors' = predecessors
              /\ numPred' = numPred]_vars

\* C6 witness: the edge P -> S was resolved twice and S counts one predecessor.
C6_Witness ==
    \E P \in DObj : \E S \in DObj :
        /\ atSucc[0][<<P, S>>] = 2
        /\ S \in successors[P]
        /\ predecessors[S] = {P}
        /\ numPred[S] = 1

\* C7: decreasePredecessors in batch mode never invokes
\* dependenciesSatisfied, even when it brings the count to zero; it only
\* decrements, and the release is left to the caller.
C7_BatchNeverReleases ==
    [][\A P \in DObj : \A S \in DObj :
          (Decrement(P, S) /\ batch[P]) =>
              /\ deliveries' = deliveries
              /\ numPred'[S] = numPred[S] - 1]_vars

\* C7 witness: a batch decrement brought S to zero and S was not handed over.
C7_Witness ==
    \E P \in DObj : \E S \in DObj :
        /\ batch[P] /\ S \in pending[P]
        /\ numPred[S] = 0
        /\ deliveries[S] = 0

\* C8: the size of an object's predecessors set never exceeds its
\* num_predecessors, also after a predecessor has finished and
\* decreasePredecessors has returned.
C8_PredecessorsWithinCount ==
    \A d \in DObj : Cardinality(predecessors[d]) <= numPred[d]

\* C9: after decreasePredecessors(P) has returned on S, P is no longer a
\* member of S.predecessors.
C9_FinishedPredecessorRemoved ==
    \A P \in DObj : \A S \in DObj :
        Decremented(P, S) => P \notin predecessors[S]

\* C10: during edge creation atSuccessor is invoked only for a newly inserted
\* edge, so it has fired exactly once per distinct (source, target) edge.
C10_HookOncePerEdge ==
    \A P \in DObj : \A T \in DObj :
        atSucc[0][<<P, T>>] = IF T \in successors[P] THEN 1 ELSE 0

\* C15: submitting an object that is already marked submitted is fatal: no
\* call of submitted() returns normally on an object whose submitted flag is
\* already true.
C15_DoubleSubmitRejected ==
    [][\A d \in DObj :
          submitCalls'[d] > submitCalls[d] => ~flags[d].submitted]_vars

\* C16: a DependableObject in state RUNNING has num_predecessors equal to
\* zero.
C16_RunningHasNoPredecessors ==
    \A d \in DObj : run[d] = "running" => numPred[d] = 0


\* C11: every mutation of the successors set of an object P happens while
\* the object lock of P itself is held. An insertion is made inside an edge
\* creation, which holds the lock of P for the whole step; a removal is made
\* by deleteSuccessor, and the lock of P has to be held by whoever removes.
C11_SuccessorsUnderOwnLock ==
    [][\A P \in DObj :
          (\E D \in successors[P] : D \notin successors'[P]) => Lock(P) # 0]_vars

C14_DestroyedInNoSuccessors ==
    \A D \in DObj : Life(D) = "dead" =>
        \A P \in DObj \ {D} : D \notin successors[P]

\* C14 witness: an object with a predecessor that is still alive has been
\* destroyed.
C14_Witness ==
    \E D \in DObj : \E P \in predecessors[D] :
        /\ Life(D) = "dead"
        /\ Life(P) = "live"


\* The per-node locks thread t holds.
HeldLocks(t) == {l \in DOMAIN nodeLock : Holder(l) = t}

\* C12: a thread that holds one per-node lock and takes a second one holds
\* the lock of the source of its edge and takes the lock of the target; no
\* set of concurrent edge creations is stuck (some call in progress can
\* always take a step); and a call that has returned holds no lock, also
\* after the early return on a duplicate edge.
C12_SourceBeforeTargetNoDeadlock ==
    /\ \A t \in Threads :
          /\ Tgpc(t) = "idle" => HeldLocks(t) = {}
          /\ Tgpc(t) # "idle" =>
                /\ exit_lock(NewEdge(t).source) \in HeldLocks(t)
                /\ HeldLocks(t) \subseteq {exit_lock(NewEdge(t).source),
                                            entry_lock(NewEdge(t).target)}
    /\ (\E t \in Threads : Tgpc(t) # "idle") => ENABLED ConnectProgress

\* C12 witness: A -> B and B -> A are being created at the same time, one of
\* the two threads holding both of its locks.
C12_Witness ==
    \E t \in Threads : \E u \in Threads \ {t} :
        /\ Tgpc(t) = "pushEntry"
        /\ Tgpc(u) # "idle"
        /\ NewEdge(t).source # NewEdge(t).target
        /\ NewEdge(u).source = NewEdge(t).target
        /\ NewEdge(u).target = NewEdge(t).source


\* C17: if every dispatched task eventually finishes, every submitted task
\* is eventually handed to the scheduler, and of the two paths that can
\* release a task (the check at the end of its submission, the decrement by
\* its last predecessor) exactly one does: a task that has been handed over
\* is not handed over again.
C17_ReleasedByExactlyOnePath ==
    /\ \A T \in DObj : flags[T].submitted ~> deliveries[T] > 0
    /\ [][\A T \in DObj :
             deliveries'[T] > deliveries[T] => deliveries[T] = 0]_vars


\* C19: the taskwait returns only after every task submitted before it in
\* its scope is FINISHED.
C19_TaskwaitAfterAllFinished ==
    waitReturned => \A P \in 1..(WaitTasks - 1) : run[P] = "finished"

\* C19 witness: the taskwait has returned after waiting for tasks that were
\* all outstanding when it was submitted.
C19_Witness ==
    /\ waitReturned
    /\ \A P \in 1..(WaitTasks - 1) : Decremented(P, WaitTasks)


\* The accesses of A and B overlap and at least one of the two is a write.
Conflict(A, B) ==
    \E a \in Acc(A) : \E b \in Acc(B) :
        a[1] = b[1] /\ "output" \in {a[2], b[2]}

\* The objects reached from the set S along at most n edges.
RECURSIVE ReachedFrom(_, _)
ReachedFrom(S, n) ==
    IF n = 0 THEN S
    ELSE ReachedFrom(S \cup UNION {successors[P] : P \in S}, n - 1)

\* C18: for tasks A submitted before B with overlapping accesses of which at
\* least one is a write, once the submission of B has returned there is a
\* path of edges from A to B, unless A has finished.
C18_ConflictingTasksOrdered ==
    \A A \in DObj : \A B \in DObj :
        (/\ A < B
         /\ pc[B] = "done"
         /\ Conflict(A, B)
         /\ run[A] # "finished")
        => B \in ReachedFrom({A}, NumObjects)

-----------------------------------------------------------------------------
(* The domain lock and the scheduler.                                      *)

\* The domain lock is held by the submitter of the object that is being
\* linked, from the beginning of submit to the submitted mark.
DomainLockHeld(T) == pc[T] = "linking"

\* C21: the domain lock is never held while a scheduler operation is called:
\* the thread that links T, inside the critical section in which the edges of
\* T are created, calls neither the scheduler hook atSuccessor for an edge
\* into T nor the hand-over of T to the scheduler.
C21_NoSchedulerCallUnderDomainLock ==
    [][\A T \in DObj :
          DomainLockHeld(T) =>
              /\ \A P \in DObj : atSucc'[0][<<P, T>>] = atSucc[0][<<P, T>>]
              /\ pc'[T] # pc[T] => deliveries'[T] = deliveries[T]]_vars

-----------------------------------------------------------------------------
(* Ownership of the access descriptors.                                    *)

\* The descriptors in the lists of object d.
Owned(d) == Range(OutputObjects(d)) \cup Range(ReadObjects(d))

\* C22: each access descriptor is owned by exactly one DependableObject: no
\* BaseDependency is in the lists of two different objects, and none is
\* deleted twice when the objects are destroyed.
C22_DescriptorsOwnedOnce ==
    /\ \A a \in DObj : \A b \in DObj : a # b => Owned(a) \cap Owned(b) = {}
    /\ \A x \in 1..MaxTargets : Deleted(x) <= 1

-----------------------------------------------------------------------------
(* Notification of the successor's work.                                   *)

\* C23: when a predecessor P that carries a WorkDescriptor finishes and a
\* successor S that carries one is decremented through
\* decreasePredecessors(P), the WorkDescriptor of S has received
\* predecessorFinished(P's WorkDescriptor) exactly once.
C23_PredecessorFinishedOnce ==
    \A P \in DObj : \A S \in DObj :
        (Decremented(P, S) /\ getWD(P) # NULL /\ getWD(S) # NULL)
        => At(predecessorFinished, <<S, P>>, 0) = 1

-----------------------------------------------------------------------------
(* Edges of the dumped task graph.                                         *)

\* C24: connect_nodes adds an edge only if source and target are not yet
\* connected or the type of the new connection differs from every existing
\* one: a node has at most one exit edge per target, kind and dependency
\* type.
C24_OneEdgePerType ==
    \A n \in Nodes :
        \A i \in DOMAIN ExitEdges(n) : \A j \in DOMAIN ExitEdges(n) :
            (/\ ExitEdges(n)[i].target = ExitEdges(n)[j].target
             /\ ExitEdges(n)[i].kind = ExitEdges(n)[j].kind
             /\ ExitEdges(n)[i].dep_type = ExitEdges(n)[j].dep_type)
            => i = j

\* C33: whenever no connect_nodes call is in progress the dumped graph is
\* symmetric: every edge in the exit edges of a node has that node as its
\* source and is in the entry edges of its target, every edge in the entry
\* edges of a node has that node as its target and is in the exit edges of
\* its source, and each edge is exactly once in each of the two lists.
C33_SymmetricWhenQuiescent ==
    (\A t \in Threads : Tgpc(t) = "idle") =>
        \A n \in Nodes :
            LET times(list, e) ==
                    Cardinality({i \in DOMAIN list : list[i] = e})
            IN  /\ \A i \in DOMAIN ExitEdges(n) :
                       LET e == ExitEdges(n)[i]
                       IN  /\ e.source = n
                           /\ times(ExitEdges(n), e) = 1
                           /\ times(EntryEdges(e.target), e) = 1
                /\ \A i \in DOMAIN EntryEdges(n) :
                       LET e == EntryEdges(n)[i]
                       IN  /\ e.target = n
                           /\ times(EntryEdges(n), e) = 1
                           /\ times(ExitEdges(e.source), e) = 1

\* C33 witness: no call is in progress and some node is the target of two
\* edges that connect_nodes stored.
C33_Witness ==
    /\ \A t \in Threads : Tgpc(t) = "idle"
    /\ \E n \in Nodes : Len(EntryEdges(n)) >= 2

-----------------------------------------------------------------------------
(* RequestMap.                                                             *)

\* C25: RequestMap::add(key, elem) inserts only if the key is absent: with
\* the key absent (also in an empty map, also with a key larger than every
\* stored key) the map afterwards maps key to elem and is otherwise as
\* before; with the key present the map is unchanged and the error 'key
\* already exists' is reported.
C25_AddInsertsOnlyIfAbsent ==
    [][\A key \in Keys : \A elem \in Elems :
          MapAdd(key, elem) =>
              IF key \in DOMAIN map
              THEN map' = map /\ reported' = reported + 1
              ELSE /\ DOMAIN map' = DOMAIN map \cup {key}
                   /\ map'[key] = elem
                   /\ \A k \in DOMAIN map : map'[k] = map[k]
                   /\ reported' = reported]_vars

\* C31: RequestMap::fetch(key) returns the element stored under key when
\* the key is present and writes no error; when the key is absent (also in
\* an empty map, also with a key smaller or larger than every stored key)
\* it returns NULL and writes 'key not found' once; in both cases the map
\* is left as it was.
C31_FetchReturnsStoredElement ==
    [][\A key \in Keys :
          MapFetch(key) =>
              /\ map' = map
              /\ IF key \in DOMAIN map
                 THEN fetched' = map[key] /\ notFound' = notFound
                 ELSE fetched' = NoElem /\ notFound' = notFound + 1]_vars

-----------------------------------------------------------------------------
(* RequestQueue.                                                           *)

\* C26: fetch() on an empty queue returns the 'no element' sentinel NULL,
\* and on every path it returns a defined value with the queue lock
\* released.
C26_FetchReturnsSentinel ==
    \A t \in Threads :
        Rqpc(t).pc = "fetchReturn" =>
            /\ qlock # t
            /\ Rqpc(t).elem # Undefined
            /\ Rqpc(t).empty => Rqpc(t).elem = NULL

\* C30: with threads calling add and tryFetch, the elements added are, in
\* the order of their addition, those that tryFetch calls have taken followed
\* by those still in the queue (none lost, none returned twice, first in
\* first out); a tryFetch call can always take its next step (it never
\* waits); it takes no element and leaves the queue as it is when the lock
\* is held by another thread or the queue is empty, and takes the front
\* element otherwise.
C30_FetchedOnceInOrderNeverBlocks ==
    /\ [](added = returned \o queue)
    /\ [](\A t \in Threads :
             Rqpc(t).pc \in {"idle", "front", "release", "return"}
             => ENABLED TryFetchStep(t))
    /\ [][\A t \in Threads :
             /\ (TryFetchStep(t) /\ At(rqpc', t, Idle).elem = NULL)
                => queue' = queue
             /\ (TryFetch(t) /\ qlock # NoThread)
                => At(rqpc', t, Idle) = [Idle EXCEPT !.pc = "return"]
             /\ TryFetchFront(t) =>
                   IF queue = <<>>
                   THEN At(rqpc', t, Idle).elem = NULL
                   ELSE /\ At(rqpc', t, Idle).elem = added[Len(returned) + 1]
                        /\ Len(queue') = Len(queue) - 1]_vars

\* C30 witness: one element has been taken, another is in the queue, and a
\* tryFetch call is about to return NULL because another thread holds the
\* lock.
C30_Witness ==
    /\ returned # <<>>
    /\ queue # <<>>
    /\ \E t \in Threads :
          /\ Rqpc(t) = [Idle EXCEPT !.pc = "return"]
          /\ qlock \in Threads \ {t}

-----------------------------------------------------------------------------
(* Registered pointers to DeviceOps.                                       *)

\* C27: every live DeviceOpsPtr whose value is not null is registered in the
\* reference set of the DeviceOps it points to.
C27_NonNullPointerIsRegistered ==
    \A p \in ptrs : Value(p) # NULL => p \in OpsRefs(Value(p))

\* C27 witness: two live pointers have the same DeviceOps as their value,
\* one of them after it was set to another DeviceOps before.
C27_Witness ==
    \E o \in Ops :
        /\ Cardinality({p \in ptrs : Value(p) = o}) >= 2
        /\ \E q \in Ops \ {o} : \E p \in ptrs : Value(p) = o /\ p \in OpsRefs(q)

\* C29: a reference set has no stale entries: every pointer in the _refs of
\* a DeviceOps is a live DeviceOpsPtr whose value is that DeviceOps.
C29_NoStaleReferences ==
    \A o \in Ops : \A p \in OpsRefs(o) : p \in ptrs /\ Value(p) = o

-----------------------------------------------------------------------------
(* Hand-over to the scheduler.                                             *)

\* C28: each DependableObject is handed to the scheduler at most once: when
\* the submitter that marks T submitted and checks for zero predecessors
\* races with the decreasePredecessors of the last predecessor,
\* dependenciesSatisfied is invoked for T by only one of the two.
C28_HandedOverAtMostOnce ==
    \A T \in DObj : deliveries[T] <= 1

-----------------------------------------------------------------------------
(* Finish command.                                                         *)

\* C34: the Finish flag is monotonic and shared. isFinished() is false as
\* long as no servant has served Finish and true in every state after some
\* servant has; the flag never goes back from true to false; isFinished()
\* gives every servant instance the same answer, true exactly if some
\* servant has served; and serving Finish again leaves the flag as it is.
C34_FinishFlagMonotonicShared ==
    /\ [](isFinished(finished) <=> serves > 0)
    /\ [][finished => finished']_vars
    /\ [][\A s \in Servants :
             /\ IsFinished(s) => (Observed(s)' <=> serves > 0)
             /\ (Serve(s) /\ finished) => (finished' = finished)]_vars

\* C34 witness: Finish was served twice, and two servants that both exist
\* were each told by isFinished() that the command is finished.
C34_Witness ==
    /\ serves >= 2
    /\ \E s \in servants : \E r \in servants :
           s # r /\ Observed(s) /\ Observed(r)

-----------------------------------------------------------------------------
(* Memory services.                                                        *)

\* C35: nanos_cmalloc_2dim_distributed allocates, registers or distributes
\* only when start_node >= 1, num_nodes >= 1 and every node index from
\* start_node to start_node + num_nodes - 1 is smaller than the number of
\* nodes; for every other input, also one for which start_node +
\* (num_nodes - 1) wraps around in machine arithmetic, it returns
\* NANOS_INVALID_PARAM and has allocated, registered and distributed
\* nothing.
C35_DistributesOnlyInRange ==
    (/\ apiRet # "none"
     /\ ~(/\ apiArgs.start_node >= 1
          /\ apiArgs.num_nodes >= 1
          /\ apiArgs.start_node + apiArgs.num_nodes - 1 < apiArgs.nodes))
        => (apiRet = "NANOS_INVALID_PARAM" /\ apiDid = {})

====
